---- MODULE Spec2Model ----
(***************************************************************************)
(* Model of unit1_CP/src_potential_fix/MLEstimator.py: the maximum         *)
(* likelihood unigram estimator (class MLEstimator) with its three         *)
(* operations fit, predict_proba and score.                                *)
(*                                                                         *)
(* Words are natural numbers.  A vocabulary is the ordered sequence of its *)
(* distinct words; the word at position i (1-based) has id i-1.            *)
(* Probabilities are exact rationals <<numerator, denominator>> in lowest  *)
(* terms; <<0,0>> stands for numpy's nan and <<1,0>> for numpy's inf.      *)
(* A call ends in an outcome record [kind, word, value]: kind "return"     *)
(* with the returned value, or the name of the exception raised (and, for  *)
(* a KeyError, the word it names).                                         *)
(***************************************************************************)
EXTENDS Integers, Sequences, FiniteSets, TLC

\* Largest vocabulary size, longest training list, longest scored list.
MaxVocab == 3
MaxLen == 2
MaxScoreLen == 2

\* Values of epsilon_unseen_proba, all inside (0,1): 0.1 (the docstring's), 0.5, 0.9.
Epsilons == {<<1, 10>>, <<1, 2>>, <<9, 10>>}

VARIABLES
    vocab,                 \* self.vocab
    epsilon_unseen_proba,  \* self.epsilon_unseen_proba
    total_count,           \* self.total_count
    unseen_count,          \* self.unseen_count
    count_V,               \* self.count_V
    fit_word_list,         \* argument of the most recent fit call
    fit_outcome,           \* how the most recent fit call ended
    prev_fit,              \* how the fit call before that one ended
    fit_completed,         \* TRUE once some fit call has returned normally
    pending                \* the predict_proba/score call whose outcome the caller holds

vars == <<vocab, epsilon_unseen_proba, total_count, unseen_count, count_V,
          fit_word_list, fit_outcome, prev_fit, fit_completed, pending>>

----------------------------------------------------------------------------
\* Exact rational arithmetic standing for the float arithmetic of the source.

RECURSIVE GCD(_, _)
GCD(a, b) == IF b = 0 THEN a ELSE GCD(b, a % b)

Zero == <<0, 1>>
One == <<1, 1>>
NaN == <<0, 0>>
Inf == <<1, 0>>

\* Lowest terms; a zero denominator gives nan (0/0) or inf (x/0, x > 0).
Norm(q) ==
    IF q[2] = 0 THEN (IF q[1] = 0 THEN NaN ELSE Inf)
    ELSE LET g == GCD(q[1], q[2]) IN <<q[1] \div g, q[2] \div g>>

\* count_V[index] / total_count on a numpy float64: no exception on a zero divisor.
NumpyDiv(a, b) == Norm(<<a, b>>)

Mul(p, q) == Norm(<<p[1] * q[1], p[2] * q[2]>>)
Add(p, q) == Norm(<<p[1] * q[2] + q[1] * p[2], p[2] * q[2]>>)
OneMinus(q) == Norm(<<q[2] - q[1], q[2]>>)

\* x > 0 ; any comparison with nan is False.
GtZero(q) == q # NaN /\ q[1] > 0

----------------------------------------------------------------------------
\* Outcomes of a call.

Return(v) == [kind |-> "return", word |-> 0, value |-> v]
ReturnNone == [kind |-> "return", word |-> 0, value |-> Zero]
KeyError(w) == [kind |-> "KeyError", word |-> w, value |-> Zero]
TypeError == [kind |-> "TypeError", word |-> 0, value |-> Zero]
ZeroDivisionError == [kind |-> "ZeroDivisionError", word |-> 0, value |-> Zero]
NotCalled == [kind |-> "none", word |-> 0, value |-> Zero]

\* The value None of count_V before the first fit.
None == << >>

\* No predict_proba/score outcome is held by the caller.
NoCall == [op |-> "none", args |-> << >>, result |-> NotCalled]

----------------------------------------------------------------------------
\* The Vocabulary collaborator.

\* Vocabulary.size
size(v) == Len(v)

\* Vocabulary.get_word_id(word): the word's id in [0, size), or KeyError naming it.
get_word_id(v, word) ==
    IF \E i \in 1..Len(v) : v[i] = word
    THEN Return((CHOOSE i \in 1..Len(v) : v[i] = word) - 1)
    ELSE KeyError(word)

----------------------------------------------------------------------------
\* The estimator object.

Self == [vocab |-> vocab, epsilon_unseen_proba |-> epsilon_unseen_proba,
         total_count |-> total_count, unseen_count |-> unseen_count,
         count_V |-> count_V]

\* MLEstimator.__init__
init(v, eps) == [vocab |-> v, epsilon_unseen_proba |-> eps,
                 total_count |-> 0, unseen_count |-> 0, count_V |-> None]

\* np.zeros(n)
zeros(n) == [i \in 0..(n - 1) |-> 0]

\* for word in word_list: count_V[get_word_id(word)] += 1, from position i on;
\* a KeyError leaves the loop with the counts made so far.
RECURSIVE fit_count_loop(_, _, _)
fit_count_loop(self, word_list, i) ==
    IF i > Len(word_list) THEN [self |-> self, outcome |-> ReturnNone]
    ELSE LET r == get_word_id(self.vocab, word_list[i]) IN
         IF r.kind # "return" THEN [self |-> self, outcome |-> r]
         ELSE fit_count_loop([self EXCEPT !.count_V[r.value] = @ + 1],
                             word_list, i + 1)

\* Bug variant: "unseen_count = 1" in place of "unseen_count += 1".
fit_unseen_loop_assign(self) ==
    [self EXCEPT !.unseen_count =
        IF \E i \in DOMAIN self.count_V : self.count_V[i] = 0 THEN 1 ELSE @]

\* for prob in count_V: if prob == 0: unseen_count += 1
fit_unseen_loop(self) ==
    [self EXCEPT !.unseen_count =
        @ + Cardinality({i \in DOMAIN self.count_V : self.count_V[i] = 0})]

\* Bug variant: count_V is allocated once and kept across fit calls.
fit_additive(self, word_list) ==
    LET reset == [self EXCEPT !.count_V = IF @ = None THEN zeros(size(self.vocab)) ELSE @,
                              !.total_count = 0,
                              !.unseen_count = 0]
        sized == [reset EXCEPT !.total_count = Len(word_list)]
        counted == fit_count_loop(sized, word_list, 1)
    IN IF counted.outcome.kind # "return" THEN counted
       ELSE [self |-> fit_unseen_loop(counted.self), outcome |-> ReturnNone]

\* Bug variant: every word is looked up before anything is updated, so a
\* KeyError leaves the estimator as it was.
fit_atomic(self, word_list) ==
    LET reset == [self EXCEPT !.count_V = zeros(size(self.vocab)),
                              !.total_count = 0,
                              !.unseen_count = 0]
        sized == [reset EXCEPT !.total_count = Len(word_list)]
        counted == fit_count_loop(sized, word_list, 1)
    IN IF counted.outcome.kind # "return"
       THEN [self |-> self, outcome |-> counted.outcome]
       ELSE [self |-> fit_unseen_loop(counted.self), outcome |-> ReturnNone]

\* MLEstimator.fit: the estimator after the call and the call's outcome.
fit(self, word_list) ==
    LET reset == [self EXCEPT !.count_V = zeros(size(self.vocab)),
                              !.total_count = 0,
                              !.unseen_count = 0]
        sized == [reset EXCEPT !.total_count = Len(word_list)]
        counted == fit_count_loop(sized, word_list, 1)
    IN IF counted.outcome.kind # "return" THEN counted
       ELSE [self |-> fit_unseen_loop(counted.self), outcome |-> ReturnNone]

\* Bug variant: the seen branch returns ml without the (1 - epsilon) factor.
predict_proba_unscaled(self, word) ==
    LET index == get_word_id(self.vocab, word) IN
    IF index.kind # "return" THEN index
    ELSE IF self.count_V = None THEN TypeError
    ELSE LET ml == NumpyDiv(self.count_V[index.value], self.total_count) IN
         IF GtZero(ml)
         THEN Return(ml)
         ELSE IF self.unseen_count > 0
         THEN Return(Mul(self.epsilon_unseen_proba, <<1, self.unseen_count>>))
         ELSE Return(Zero)

\* Bug variant: the seen branch scales by (1 + epsilon).
predict_proba_overweight(self, word) ==
    LET index == get_word_id(self.vocab, word) IN
    IF index.kind # "return" THEN index
    ELSE IF self.count_V = None THEN TypeError
    ELSE LET ml == NumpyDiv(self.count_V[index.value], self.total_count) IN
         IF GtZero(ml)
         THEN Return(Mul(Add(One, self.epsilon_unseen_proba), ml))
         ELSE IF self.unseen_count > 0
         THEN Return(Mul(self.epsilon_unseen_proba, <<1, self.unseen_count>>))
         ELSE Return(Zero)

\* Bug variant: count_V is tested before the word is looked up.
predict_proba_late_lookup(self, word) ==
    IF self.count_V = None THEN TypeError
    ELSE LET index == get_word_id(self.vocab, word) IN
    IF index.kind # "return" THEN index
    ELSE LET ml == NumpyDiv(self.count_V[index.value], self.total_count) IN
         IF GtZero(ml)
         THEN Return(Mul(OneMinus(self.epsilon_unseen_proba), ml))
         ELSE IF self.unseen_count > 0
         THEN Return(Mul(self.epsilon_unseen_proba, <<1, self.unseen_count>>))
         ELSE Return(Zero)

\* MLEstimator.predict_proba
predict_proba(self, word) ==
    LET index == get_word_id(self.vocab, word) IN
    IF index.kind # "return" THEN index
    ELSE IF self.count_V = None THEN TypeError
    ELSE LET ml == NumpyDiv(self.count_V[index.value], self.total_count) IN
         IF GtZero(ml)
         THEN Return(Mul(OneMinus(self.epsilon_unseen_proba), ml))
         ELSE IF self.unseen_count > 0
         THEN Return(Mul(self.epsilon_unseen_proba, <<1, self.unseen_count>>))
         ELSE Return(Zero)

\* for word in word_list: total_log_proba += np.log(predict_proba(word)).
\* The running sum is carried as its exponential, the product of the
\* probabilities (0 for a sum of -inf), which orders the same way.
RECURSIVE score_loop(_, _, _, _)
score_loop(self, word_list, i, exp_total) ==
    IF i > Len(word_list) THEN Return(exp_total)
    ELSE LET p == predict_proba(self, word_list[i]) IN
         IF p.kind # "return" THEN p
         ELSE score_loop(self, word_list, i + 1, Mul(exp_total, p.value))

\* MLEstimator.score: value v stands for the returned ln(v) / len(word_list).
score(self, word_list) ==
    LET total == score_loop(self, word_list, 1, One) IN
    IF total.kind # "return" THEN total
    ELSE IF Len(word_list) = 0 THEN ZeroDivisionError
    ELSE total

----------------------------------------------------------------------------
\* Inputs.

\* Vocabularies of 1..MaxVocab words.
Vocabularies == {[i \in 1..n |-> i] : n \in 1..MaxVocab}

\* The words of the vocabulary and one word outside it.
InputWords == 1..(Len(vocab) + 1)

\* Whether every word of the list is an input word.
IsInput(word_list) == \A i \in 1..Len(word_list) : word_list[i] \in InputWords

RECURSIVE ListsUpTo(_, _)
ListsUpTo(S, n) ==
    IF n = 0 THEN {<< >>}
    ELSE LET shorter == ListsUpTo(S, n - 1) IN
         shorter \cup {Append(l, w) : l \in {s \in shorter : Len(s) = n - 1}, w \in S}

\* The word lists given to fit and to score.
TrainingLists == ListsUpTo(1..(MaxVocab + 1), MaxLen)
ScoredLists == ListsUpTo(1..(MaxVocab + 1), MaxScoreLen)

----------------------------------------------------------------------------
\* The state machine.

Init ==
    /\ \E v \in Vocabularies : \E eps \in Epsilons :
          LET self == init(v, eps) IN
          /\ vocab = self.vocab
          /\ epsilon_unseen_proba = self.epsilon_unseen_proba
          /\ total_count = self.total_count
          /\ unseen_count = self.unseen_count
          /\ count_V = self.count_V
    /\ fit_word_list = << >>
    /\ fit_outcome = NotCalled
    /\ prev_fit = NotCalled.kind
    /\ fit_completed = FALSE
    /\ pending = NoCall

Fit(word_list) ==
    /\ IsInput(word_list)
    /\ LET r == fit(Self, word_list) IN
       /\ total_count' = r.self.total_count
       /\ unseen_count' = r.self.unseen_count
       /\ count_V' = r.self.count_V
       /\ fit_outcome' = r.outcome
       /\ fit_completed' = (fit_completed \/ r.outcome.kind = "return")
    /\ fit_word_list' = word_list
    /\ prev_fit' = fit_outcome.kind
    /\ UNCHANGED <<vocab, epsilon_unseen_proba, pending>>

PredictProba(word) ==
    /\ pending' = [op |-> "predict_proba", args |-> <<word>>,
                   result |-> predict_proba(Self, word)]
    /\ UNCHANGED <<vocab, epsilon_unseen_proba, total_count, unseen_count, count_V,
                   fit_word_list, fit_outcome, prev_fit, fit_completed>>

Score(word_list) ==
    /\ IsInput(word_list)
    /\ pending' = [op |-> "score", args |-> word_list,
                   result |-> score(Self, word_list)]
    /\ UNCHANGED <<vocab, epsilon_unseen_proba, total_count, unseen_count, count_V,
                   fit_word_list, fit_outcome, prev_fit, fit_completed>>

\* The caller takes the outcome of predict_proba/score and goes on.
Resume ==
    /\ pending # NoCall
    /\ pending' = NoCall
    /\ UNCHANGED <<vocab, epsilon_unseen_proba, total_count, unseen_count, count_V,
                   fit_word_list, fit_outcome, prev_fit, fit_completed>>

\* A call is made when the caller holds no outcome.
Next ==
    \/ pending = NoCall /\ \E word_list \in TrainingLists : Fit(word_list)
    \/ pending = NoCall /\ \E word \in InputWords : PredictProba(word)
    \/ pending = NoCall /\ \E word_list \in ScoredLists : Score(word_list)
    \/ Resume

Spec == Init /\ [][Next]_vars

----------------------------------------------------------------------------
\* Vocabulary used by the properties below.

VocabWords == {vocab[i] : i \in 1..Len(vocab)}
Ids == 0..(Len(vocab) - 1)

\* Number of positions of word_list holding word.
Occurrences(word, word_list) ==
    Cardinality({i \in 1..Len(word_list) : word_list[i] = word})

RECURSIVE SumUpTo(_, _)
SumUpTo(counts, n) == IF n = 0 THEN 0 ELSE counts[n - 1] + SumUpTo(counts, n - 1)

\* sum(count_V)
SumCounts == SumUpTo(count_V, Len(vocab))

RECURSIVE ZerosUpTo(_, _)
ZerosUpTo(counts, n) ==
    IF n = 0 THEN 0
    ELSE (IF counts[n - 1] = 0 THEN 1 ELSE 0) + ZerosUpTo(counts, n - 1)

\* Number of zero entries of count_V.
ZeroEntries == ZerosUpTo(count_V, Len(vocab))

\* p <= q for rationals with positive denominators.
Leq(p, q) == p[1] * q[2] <= q[1] * p[2]

\* The most recent fit call returned normally / on a non-empty list.
Fitted == fit_outcome.kind = "return"
FittedNonEmpty == Fitted /\ Len(fit_word_list) > 0

\* The caller holds the outcome of predict_proba on a vocabulary word.
PredictedVocabWord ==
    /\ pending.op = "predict_proba"
    /\ pending.args[1] \in VocabWords

\* The caller holds the outcome of score on a non-empty list of vocabulary words.
ScoredVocabWords ==
    /\ pending.op = "score"
    /\ Len(pending.args) > 0
    /\ \A i \in 1..Len(pending.args) : pending.args[i] \in VocabWords

\* Sum of predict_proba over the first n vocabulary words (nan if a call fails).
RECURSIVE ProbaSum(_)
ProbaSum(n) ==
    IF n = 0 THEN Zero
    ELSE LET p == predict_proba(Self, vocab[n]) IN
         IF p.kind = "return" THEN Add(ProbaSum(n - 1), p.value) ELSE NaN

----------------------------------------------------------------------------
\* C1: after fit(L) returns, sum(count_V) = len(L), total_count = len(L) and
\* unseen_count is the number of zero entries of count_V.
C1_FitPostcondition ==
    Fitted =>
        /\ SumCounts = Len(fit_word_list)
        /\ total_count = Len(fit_word_list)
        /\ unseen_count = ZeroEntries

\* A fit of two words over a three-word vocabulary: one word stays unseen.
C1_Witness ==
    /\ Fitted
    /\ Len(vocab) = 3
    /\ fit_word_list = <<1, 2>>
    /\ unseen_count = 1
    /\ prev_fit = "return"

\* C2: once fitted, predict_proba summed over the vocabulary is 1 (stated for
\* non-empty training lists, where no division by zero is involved).
C2_ValidPMF ==
    FittedNonEmpty => ProbaSum(Len(vocab)) = One

\* C3: after a fit on n > 0 words, predict_proba(w) is (1 - epsilon) * k / n
\* for a word seen k > 0 times and epsilon / u for a word not seen, where
\* u = unseen_count > 0 is the number of vocabulary words not in the list.
C3_PredictProbaValue ==
    (FittedNonEmpty /\ PredictedVocabWord) =>
        LET k == Occurrences(pending.args[1], fit_word_list)
            n == Len(fit_word_list)
            u == Cardinality({w \in VocabWords : Occurrences(w, fit_word_list) = 0})
            e == epsilon_unseen_proba
            v == pending.result.value
        IN /\ pending.result.kind = "return"
           /\ v[2] > 0
           /\ k > 0 => v[1] * (e[2] * n) = (e[2] - e[1]) * k * v[2]
           /\ k = 0 => /\ unseen_count = u
                       /\ u > 0
                       /\ v[1] * (e[2] * u) = e[1] * v[2]

\* The docstring's numbers: epsilon 0.1, a word seen once in two gets 0.45 and
\* the one unseen word gets 0.1.
C3_Witness ==
    /\ Fitted
    /\ vocab = <<1, 2, 3>>
    /\ epsilon_unseen_proba = <<1, 10>>
    /\ fit_word_list = <<1, 2>>
    /\ pending.op = "predict_proba"
    /\ pending.args = <<1>>
    /\ pending.result = Return(<<9, 20>>)
    /\ predict_proba(Self, 3) = Return(<<1, 10>>)

\* C4: whenever predict_proba returns a value for a vocabulary word, the value
\* is strictly positive, in every reachable state.
C4_NeverZeroProbability ==
    (PredictedVocabWord /\ pending.result.kind = "return") =>
        GtZero(pending.result.value)

\* C5: predict_proba on a word outside the vocabulary ends in the KeyError
\* naming that word, in every state of the estimator.
C5_UnknownWordKeyError ==
    (pending.op = "predict_proba" /\ pending.args[1] \notin VocabWords) =>
        pending.result = KeyError(pending.args[1])

\* predict_proba on an unknown word before any fit call (count_V is None).
C5_Witness ==
    /\ count_V = None
    /\ fit_outcome = NotCalled
    /\ pending.op = "predict_proba"
    /\ pending.args[1] \notin VocabWords
    /\ pending.result.kind = "KeyError"

\* C6: after a fit(L2) that returns, whatever fit calls came before, count_V[i]
\* is the number of occurrences of word i in L2, total_count = len(L2),
\* unseen_count is the number of zero entries, and the estimator equals a
\* fresh one on which only fit(L2) was called.
C6_FitReplaces ==
    Fitted =>
        /\ \A id \in Ids : count_V[id] = Occurrences(vocab[id + 1], fit_word_list)
        /\ total_count = Len(fit_word_list)
        /\ unseen_count = Cardinality({id \in Ids : count_V[id] = 0})
        /\ Self = fit(init(vocab, epsilon_unseen_proba), fit_word_list).self

\* A fit that returns right after a fit that raised and left counts behind.
C6_Witness ==
    /\ Fitted
    /\ prev_fit = "KeyError"
    /\ Len(fit_word_list) = 2
    /\ unseen_count >= 1

\* C7: after fit on an empty list, predict_proba on a vocabulary word fails
\* with a divide-by-zero error.
C7_EmptyFitDivideByZero ==
    (Fitted /\ fit_word_list = << >> /\ PredictedVocabWord) =>
        pending.result.kind = "ZeroDivisionError"

\* C8: while no fit call has returned normally, predict_proba on a vocabulary
\* word and score on a non-empty list of vocabulary words raise.
C8_FailsBeforeCompletedFit ==
    (~fit_completed /\ (PredictedVocabWord \/ ScoredVocabWords)) =>
        pending.result.kind # "return"

\* C9: after a fit on a non-empty list, predict_proba on a vocabulary word
\* lies in [0, 1], and score on a non-empty list of vocabulary words is a
\* finite value <= 0 (the product of the probabilities lies in (0, 1]).
C9_ProbaAndScoreRange ==
    FittedNonEmpty =>
        /\ PredictedVocabWord =>
              /\ pending.result.kind = "return"
              /\ pending.result.value[2] > 0
              /\ Leq(Zero, pending.result.value)
              /\ Leq(pending.result.value, One)
        /\ ScoredVocabWords =>
              /\ pending.result.kind = "return"
              /\ pending.result.value[2] > 0
              /\ GtZero(pending.result.value)
              /\ Leq(pending.result.value, One)

\* score on a seen and an unseen word: a strictly negative average.
C9_Witness ==
    /\ FittedNonEmpty
    /\ ScoredVocabWords
    /\ Len(pending.args) = 2
    /\ Occurrences(pending.args[1], fit_word_list) > 0
    /\ Occurrences(pending.args[2], fit_word_list) = 0
    /\ pending.result.kind = "return"
    /\ pending.result.value # One
    /\ Leq(pending.result.value, One)

\* Position of the first word of the list that is not in the vocabulary.
FirstUnknown(word_list) ==
    CHOOSE j \in 1..Len(word_list) :
        /\ word_list[j] \notin VocabWords
        /\ \A i \in 1..(j - 1) : word_list[i] \in VocabWords

\* C10: when fit(L) raises at the first unknown word, at position j, count_V
\* is an array of the vocabulary's size holding the counts of the words before j, total_count = len(L) and
\* unseen_count = 0; so sum(count_V) < total_count, and unseen_count is not
\* the number of zero entries when some vocabulary word is not before j.
C10_FitNotAtomic ==
    fit_outcome.kind = "KeyError" =>
        LET j == FirstUnknown(fit_word_list)
            prefix == SubSeq(fit_word_list, 1, j - 1)
        IN /\ fit_outcome = KeyError(fit_word_list[j])
           /\ DOMAIN count_V = Ids
           /\ \A id \in Ids : count_V[id] = Occurrences(vocab[id + 1], prefix)
           /\ total_count = Len(fit_word_list)
           /\ unseen_count = 0
           /\ SumCounts < total_count
           /\ (\E w \in VocabWords : Occurrences(w, prefix) = 0)
                 => unseen_count # ZeroEntries

\* A fit that raises at its second word, after an earlier fit had returned.
C10_Witness ==
    /\ fit_outcome.kind = "KeyError"
    /\ prev_fit = "return"
    /\ Len(fit_word_list) = 2
    /\ fit_word_list[1] \in VocabWords
    /\ SumCounts = 1
    /\ ZeroEntries >= 1

====
